---- MODULE Spec2Model ----
(***************************************************************************)
(* gamf: the ephemeral single-use record store (store.go) and the four     *)
(* handshake handlers (StartHandler, RedirectHandler, CallbackHandler,     *)
(* CodeHandler) that run over it.                                          *)
(*                                                                         *)
(* Every request is served by its own goroutine.  A goroutine is a process *)
(* p with a program counter pc[p]; the only shared state is the store's    *)
(* map d, guarded by the mutex m.  Time is the wall clock `now`, which     *)
(* advances independently of the goroutines.                               *)
(***************************************************************************)
EXTENDS Integers, Sequences, FiniteSets, TLC

(***************************************************************************)
(* Bounds of the model.                                                    *)
(***************************************************************************)
\* goroutines calling the store directly (StoreSpec)
NumCallers == 2
\* the clock stops after this many ticks in StoreSpec
StoreMaxTime == 3
\* the largest TTL a direct caller passes to SetEx
MaxTTL == 2
\* goroutines serving HTTP requests (Spec)
NumHandlers == 2
\* in Spec the clock is read in minutes and advances TickMinutes at a time,
\* up to MaxTime
TickMinutes == 5
MaxTime == 15
\* the server accepts this many requests in Spec
MaxRequests == 3

\* 10*time.Minute, the TTL of an initiation record
InitTTL == 10
\* 5*time.Minute, the TTL of a code record
CodeTTL == 5

Tokens == {"t1", "t2"}
Codes == {"c1", "c2"}

KeyNoPrefix(prefix, tok) == <<"", tok>>

\* a store key is a prefix ("i:" or "s:") followed by a token
Key(prefix, tok) == <<prefix, tok>>
\* the keys and values direct callers of the store use
StoreKeys == {Key("s:", "t1")}
StoreVals == Codes
TTLs == 1..MaxTTL

VARIABLES
    d,        \* memStore.d: the map, key -> [exp, val]
    m,        \* memStore.m: the mutex, 0 when free, else the goroutine holding it
    now,      \* the wall clock read by time.Now()
    pc,       \* where each goroutine is
    call,     \* the store call a goroutine is making: [op, key, val, ttl, conc]
    local,    \* GetDel's local `val` (the entry read from the map)
    ret,      \* what the goroutine's last store call returned: [val, err]
    written,  \* history: per key, the last SetEx and whether a GetDel returned it
    req,      \* the HTTP request a goroutine is serving, with the handler's locals
    out,      \* the request answered in the last step, with its response
    served    \* how many requests the server has accepted

vars == <<d, m, now, pc, call, local, ret, written, req, out, served>>

Procs == DOMAIN pc

\* error values of the Store interface
ErrNone == "nil"
ErrNil == "redis.Nil"
ErrFail == "error"

NoCall == [op |-> "none", key |-> Key("s:", "t1"), val |-> "", ttl |-> 0, conc |-> FALSE]
NoLocal == [exp |-> 0, val |-> ""]
NoRet == [val |-> "", err |-> ErrNone]
NoReq == [kind |-> "none", body |-> "", key |-> "", code |-> "",
          initialToken |-> "", stateToken |-> ""]
NoResp == [status |-> 0, error |-> "", key |-> "", url |-> <<>>, action |-> <<>>,
           manifest |-> <<>>, code |-> "", location |-> ""]
NoHist == [st |-> "none"]
NoOut == [req |-> NoReq, call |-> NoCall, ret |-> NoRet, resp |-> NoResp,
          was |-> NoHist]

(***************************************************************************)
(* The map: Go's map read (val, ok := m[k]), assignment and delete.        *)
(***************************************************************************)
MapHas(dd, k) == k \in DOMAIN dd

MapDeleteNothing(dd, k) == dd

MapDelete(dd, k) == [x \in DOMAIN dd \ {k} |-> dd[x]]

MapSetIfAbsent(dd, k, v) ==
    IF k \in DOMAIN dd THEN dd
    ELSE [x \in DOMAIN dd \cup {k} |-> IF x = k THEN v ELSE dd[x]]

MapSetAlone(dd, k, v) == [x \in {k} |-> v]

MapSet(dd, k, v) == [x \in DOMAIN dd \cup {k} |-> IF x = k THEN v ELSE dd[x]]

\* value{val: val, exp: time.Now().Add(exp)}
NewValueNoTTL(val, exp, t) == [exp |-> t, val |-> val]

NewValue(val, exp, t) == [exp |-> t + exp, val |-> val]

\* time.Now().After(exp)
After(t, exp) == t > exp

(***************************************************************************)
(* sync.Mutex                                                              *)
(***************************************************************************)
CanLockAlways(p) == TRUE

CanLock(p) == m = 0

(***************************************************************************)
(* History of the store, kept beside the map and never read by the code.   *)
(* A key that was never written has no entry.  After SetEx(key, v, ttl) at *)
(* instant w the entry is "set" with the value v and the deadline          *)
(* dl = w + ttl; it becomes "taken" when a GetDel returns the value and    *)
(* "lapsed" when a GetDel throws the record away as expired.               *)
(***************************************************************************)
NoteSet(h, k, v, ttl, t) ==
    MapSet(h, k, [st |-> "set", v |-> v, dl |-> t + ttl])

NoteGone(h, k, how) ==
    IF MapHas(h, k) THEN MapSet(h, k, [st |-> how]) ELSE h

Live(h, k) == MapHas(h, k) /\ h[k].st = "set"

\* what the history says of key k
Hist(h, k) == IF MapHas(h, k) THEN h[k] ELSE [st |-> "never"]

\* another goroutine is inside a GetDel on the same key right now
Overlaps(p, k) ==
    \E q \in Procs \ {p} :
        /\ pc[q] \in {"GetDel.Lock", "GetDel.Read", "GetDel.Check", "call"}
        /\ call[q].op = "GetDel"
        /\ call[q].key = k

(***************************************************************************)
(* memStore.GetDel, one step per statement that touches shared state.      *)
(***************************************************************************)
\* ms.m.Lock()
GetDelLock(p) ==
    /\ pc[p] = "GetDel.Lock"
    /\ CanLock(p)
    /\ m' = p
    /\ pc' = [pc EXCEPT ![p] = "GetDel.Read"]
    /\ UNCHANGED <<d, now, call, local, ret, written, req, out, served>>

\* val, ok := ms.d[key]; if !ok { return "", redis.Nil }   (Unlock is deferred)
GetDelRead(p) ==
    /\ pc[p] = "GetDel.Read"
    /\ IF MapHas(d, call[p].key)
       THEN /\ local' = [local EXCEPT ![p] = d[call[p].key]]
            /\ pc' = [pc EXCEPT ![p] = "GetDel.Check"]
            /\ UNCHANGED <<m, ret>>
       ELSE /\ ret' = [ret EXCEPT ![p] = [val |-> "", err |-> ErrNil]]
            /\ pc' = [pc EXCEPT ![p] = "ret"]
            /\ m' = 0
            /\ UNCHANGED local
    /\ UNCHANGED <<d, now, call, written, req, out, served>>

\* if time.Now().After(val.exp) { delete; return "", redis.Nil }
\* delete(ms.d, key); return val.val, nil
GetDelCheck(p) ==
    /\ pc[p] = "GetDel.Check"
    /\ d' = MapDelete(d, call[p].key)
    /\ IF After(now, local[p].exp)
       THEN /\ ret' = [ret EXCEPT ![p] = [val |-> "", err |-> ErrNil]]
            /\ written' = NoteGone(written, call[p].key, "lapsed")
       ELSE /\ ret' = [ret EXCEPT ![p] = [val |-> local[p].val, err |-> ErrNone]]
            /\ written' = NoteGone(written, call[p].key, "taken")
    /\ local' = [local EXCEPT ![p] = NoLocal]
    /\ pc' = [pc EXCEPT ![p] = "ret"]
    /\ m' = 0
    /\ UNCHANGED <<now, call, req, out, served>>

(***************************************************************************)
(* memStore.SetEx                                                          *)
(***************************************************************************)
\* ms.m.Lock()
SetExLock(p) ==
    /\ pc[p] = "SetEx.Lock"
    /\ CanLock(p)
    /\ m' = p
    /\ pc' = [pc EXCEPT ![p] = "SetEx.Write"]
    /\ UNCHANGED <<d, now, call, local, ret, written, req, out, served>>

\* ms.d[key] = value{val: val, exp: time.Now().Add(exp)}; return nil
SetExWrite(p) ==
    /\ pc[p] = "SetEx.Write"
    /\ d' = MapSet(d, call[p].key, NewValue(call[p].val, call[p].ttl, now))
    /\ written' = NoteSet(written, call[p].key, call[p].val, call[p].ttl, now)
    /\ ret' = [ret EXCEPT ![p] = [val |-> "", err |-> ErrNone]]
    /\ pc' = [pc EXCEPT ![p] = "ret"]
    /\ m' = 0
    /\ UNCHANGED <<now, call, local, req, out, served>>

(***************************************************************************)
(* The clock.                                                              *)
(***************************************************************************)
Tick(step, max) ==
    /\ now + step <= max
    /\ now' = now + step
    /\ UNCHANGED <<d, m, pc, call, local, ret, written, req, served>>

(***************************************************************************)
(* StoreSpec: goroutines that call the in-process store directly.          *)
(***************************************************************************)
CallGetDel(p) ==
    /\ pc[p] = "idle"
    /\ \E k \in StoreKeys :
        call' = [call EXCEPT ![p] = [op |-> "GetDel", key |-> k, val |-> "",
                                     ttl |-> 0, conc |-> Overlaps(p, k)]]
    /\ pc' = [pc EXCEPT ![p] = "GetDel.Lock"]
    /\ UNCHANGED <<d, m, now, local, ret, written, req, out, served>>

CallSetEx(p) ==
    /\ pc[p] = "idle"
    /\ \E k \in StoreKeys, v \in StoreVals, ttl \in TTLs :
        call' = [call EXCEPT ![p] = [op |-> "SetEx", key |-> k, val |-> v,
                                     ttl |-> ttl, conc |-> FALSE]]
    /\ pc' = [pc EXCEPT ![p] = "SetEx.Lock"]
    /\ UNCHANGED <<d, m, now, local, ret, written, req, out, served>>

\* the caller takes the result and is free to call again
Return(p) ==
    /\ pc[p] = "ret"
    /\ pc' = [pc EXCEPT ![p] = "idle"]
    /\ call' = [call EXCEPT ![p] = NoCall]
    /\ ret' = [ret EXCEPT ![p] = NoRet]
    /\ UNCHANGED <<d, m, now, local, written, req, out, served>>

StoreTick ==
    /\ Tick(1, StoreMaxTime)
    /\ UNCHANGED out

\* NewMemStore(): an empty map, a free mutex
StoreInit ==
    /\ d = <<>>
    /\ m = 0
    /\ now = 0
    /\ pc = [p \in 1..NumCallers |-> "idle"]
    /\ call = [p \in 1..NumCallers |-> NoCall]
    /\ local = [p \in 1..NumCallers |-> NoLocal]
    /\ ret = [p \in 1..NumCallers |-> NoRet]
    /\ written = <<>>
    /\ req = [p \in 1..NumCallers |-> NoReq]
    /\ out = NoOut
    /\ served = 0

StoreNext ==
    \/ \E p \in Procs : CallGetDel(p)
    \/ \E p \in Procs : CallSetEx(p)
    \/ \E p \in Procs : GetDelLock(p)
    \/ \E p \in Procs : GetDelRead(p)
    \/ \E p \in Procs : GetDelCheck(p)
    \/ \E p \in Procs : SetExLock(p)
    \/ \E p \in Procs : SetExWrite(p)
    \/ \E p \in Procs : Return(p)
    \/ StoreTick

StoreSpec == StoreInit /\ [][StoreNext]_vars

(***************************************************************************)
(* encoding/json, as far as the handlers use it.  A JSON object is a       *)
(* function from its keys to values; scalar, array and raw values are kept *)
(* as their text, "null" being JSON null.  A Go struct is a record of its  *)
(* fields; a nil slice, map or RawMessage is "nil".                        *)
(***************************************************************************)
Field(obj, f, zero) ==
    IF f \in DOMAIN obj /\ obj[f] # "null" THEN obj[f] ELSE zero

Null(v) == IF v = "nil" THEN "null" ELSE v

\* Decode into the manifest struct: unknown keys are dropped, missing keys
\* leave the zero value
DecodeManifest(obj) ==
    [Name |-> Field(obj, "name", ""),
     URL |-> Field(obj, "url", ""),
     HookAttributes |-> Field(obj, "hook_attributes", "nil"),
     RedirectURL |-> Field(obj, "redirect_url", ""),
     CallbackURLs |-> Field(obj, "callback_urls", "nil"),
     Description |-> Field(obj, "description", ""),
     Public |-> (Field(obj, "public", "false") = "true"),
     DefaultEvents |-> Field(obj, "default_events", "nil"),
     DefaultPermissions |-> Field(obj, "default_permissions", "nil")]

\* Marshal of the manifest struct: every field is written, nil as null
MarshalManifest(mf) ==
    [name |-> mf.Name,
     url |-> mf.URL,
     hook_attributes |-> Null(mf.HookAttributes),
     redirect_url |-> mf.RedirectURL,
     callback_urls |-> Null(mf.CallbackURLs),
     description |-> mf.Description,
     public |-> IF mf.Public THEN "true" ELSE "false",
     default_events |-> Null(mf.DefaultEvents),
     default_permissions |-> Null(mf.DefaultPermissions)]

\* Decode into startRequest
DecodeStartRequest(obj) ==
    [Manifest |-> DecodeManifest(IF "manifest" \in DOMAIN obj
                                 THEN obj["manifest"] ELSE <<>>),
     TargetType |-> Field(obj, "target_type", ""),
     TargetSlug |-> Field(obj, "target_slug", ""),
     Host |-> Field(obj, "host", ""),
     Token |-> Field(obj, "token", "")]

\* Marshal of startRequest
MarshalStartRequest(r) ==
    [manifest |-> MarshalManifest(r.Manifest),
     target_type |-> r.TargetType,
     target_slug |-> r.TargetSlug,
     host |-> r.Host,
     token |-> r.Token]

(***************************************************************************)
(* The request bodies POST /start is sent.  parse says what Decode makes   *)
(* of the body: "syntax" (not JSON) or "ok".                               *)
(***************************************************************************)
BodyNames == {"garbage", "user", "org", "empty"}

Body(b) ==
    CASE b = "garbage" -> [parse |-> "syntax", obj |-> <<>>]
      [] b = "user" ->
            [parse |-> "ok",
             obj |-> [manifest |-> [name |-> "demo"],
                      target_type |-> "user",
                      target_slug |-> "alice",
                      host |-> "github.example"]]
      [] b = "org" ->
            [parse |-> "ok",
             obj |-> [manifest |-> [name |-> "demo",
                                    redirect_url |-> "https://caller.example/cb",
                                    setup_url |-> "https://caller.example/setup"],
                      target_type |-> "org",
                      target_slug |-> "acme",
                      host |-> "github.example",
                      token |-> "forged"]]
      [] OTHER -> [parse |-> "ok", obj |-> <<>>]

\* GAMF_URL
baseURL == "https://gamf.example"

\* token(): 32 bytes of crypto/rand in hex, or the error of rand.Read
TokenErr == "rand.Read failed"
TokenResults == Tokens \cup {TokenErr}

\* fmt.Sprintf, as the list of the pieces it joins
CallbackURL == <<baseURL, "/callback">>
RedirectURL(initialToken) == <<baseURL, "/redirect/", initialToken>>

\* the token a URL built above ends with
TokenOf(url) == url[Len(url)]

actionURLOrganization(data) ==
    IF data.TargetType = "organization"
    THEN <<"https://", data.Host, "/organizations/", data.TargetSlug,
           "/settings/apps/new?state=", data.Token>>
    ELSE <<"https://", data.Host, "/settings/apps/new?state=", data.Token>>

actionURL(data) ==
    IF data.TargetType = "org"
    THEN <<"https://", data.Host, "/organizations/", data.TargetSlug,
           "/settings/apps/new?state=", data.Token>>
    ELSE <<"https://", data.Host, "/settings/apps/new?state=", data.Token>>

(***************************************************************************)
(* A whole store call, as the handlers see it.  Under the mutex the        *)
(* statements of GetDel and SetEx run without another store call between   *)
(* them (StoreSpec takes them one at a time), so Spec takes a call as one  *)
(* step: what it returns, and the map it leaves.                           *)
(***************************************************************************)
GetDelResult(dd, key, t) ==
    IF ~MapHas(dd, key) THEN [val |-> "", err |-> ErrNil]
    ELSE IF After(t, dd[key].exp) THEN [val |-> "", err |-> ErrNil]
    ELSE [val |-> dd[key].val, err |-> ErrNone]

GetDelMapKeep(dd, key) == dd

GetDelMapTombstone(dd, key) ==
    IF ~MapHas(dd, key) THEN MapSet(dd, key, [exp |-> -1, val |-> ""])
    ELSE MapDelete(dd, key)

GetDelMap(dd, key) ==
    IF ~MapHas(dd, key) THEN dd ELSE MapDelete(dd, key)

GetDelNote(h, dd, key, t) ==
    IF ~MapHas(dd, key) THEN h
    ELSE IF After(t, dd[key].exp) THEN NoteGone(h, key, "lapsed")
    ELSE NoteGone(h, key, "taken")

SetExMap(dd, key, val, exp, t) == MapSet(dd, key, NewValue(val, exp, t))

(***************************************************************************)
(* The handlers.  A handler runs up to its store call in one step (the     *)
(* goroutine then waits at the call, pc = "call"); the store call and the  *)
(* rest of the handler, which touches nothing shared, are a second step,   *)
(* after which the goroutine is gone.  out is the request that the last    *)
(* step answered, with the store call's result, the response written and   *)
(* (was) what the history said of the call's key when the call ran.        *)
(***************************************************************************)
Error(status, msg) == [NoResp EXCEPT !.status = status, !.error = msg]

\* net/http starts a goroutine for the request: the first free one, which one
\* it is being of no consequence
Accepts(p) ==
    /\ pc[p] = "idle"
    /\ \A q \in Procs : q < p => pc[q] # "idle"
    /\ served < MaxRequests

\* the handler writes its response without calling the store
Reply(p, r, rs) ==
    /\ out' = [req |-> r, call |-> NoCall, ret |-> NoRet, resp |-> rs,
               was |-> NoHist]
    /\ served' = served + 1
    /\ UNCHANGED <<d, m, now, pc, call, local, ret, written, req>>

\* the handler reaches store.GetDel or store.SetEx
StoreCall(p, r, c) ==
    /\ pc' = [pc EXCEPT ![p] = "call"]
    /\ req' = [req EXCEPT ![p] = r]
    /\ call' = [call EXCEPT ![p] = c]
    /\ out' = NoOut
    /\ served' = served + 1
    /\ UNCHANGED <<d, m, now, local, ret, written>>

\* the store call returned res and the handler wrote rs
Answer(p, res, rs) ==
    /\ out' = [req |-> req[p], call |-> call[p], ret |-> res, resp |-> rs,
               was |-> Hist(written, call[p].key)]
    /\ pc' = [pc EXCEPT ![p] = "idle"]
    /\ req' = [req EXCEPT ![p] = NoReq]
    /\ call' = [call EXCEPT ![p] = NoCall]
    /\ UNCHANGED <<m, now, local, ret, served>>

TokenFailedNever(t) == FALSE

\* token(): err != nil
TokenFailed(t) == t = TokenErr

\* StartHandler up to store.SetEx
StartHandler(p) ==
    /\ Accepts(p)
    /\ \E b \in BodyNames, t1 \in TokenResults, t2 \in TokenResults :
        LET r == [NoReq EXCEPT !.kind = "Start", !.body = b] IN
        IF Body(b).parse # "ok"
        THEN Reply(p, r, Error(400, "failed to parse request"))
        ELSE IF TokenFailed(t1)
        THEN Reply(p, [r EXCEPT !.initialToken = t1],
                   Error(500, "failed to generate a random token"))
        ELSE IF TokenFailed(t2)
        THEN Reply(p, [r EXCEPT !.initialToken = t1, !.stateToken = t2],
                   Error(500, "failed to generate a random token"))
        ELSE LET request == [DecodeStartRequest(Body(b).obj) EXCEPT
                                !.Token = t2,
                                !.Manifest.RedirectURL = CallbackURL]
             IN StoreCall(p, [r EXCEPT !.initialToken = t1, !.stateToken = t2],
                          [op |-> "SetEx", key |-> Key("i:", t1),
                           val |-> MarshalStartRequest(request),
                           ttl |-> InitTTL, conc |-> FALSE])

StartResponseSwapped(r, res) ==
    [NoResp EXCEPT !.status = 200, !.key = r.initialToken,
                   !.url = RedirectURL(r.stateToken)]

\* StartHandler after store.SetEx returned res
StartResponse(r, res) ==
    IF res.err # ErrNone
    THEN Error(500, "failed to store payload")
    ELSE [NoResp EXCEPT !.status = 200,
                        !.key = r.stateToken,
                        !.url = RedirectURL(r.initialToken)]

\* RedirectHandler up to store.GetDel
RedirectHandler(p) ==
    /\ Accepts(p)
    /\ \E key \in Tokens :
        StoreCall(p, [NoReq EXCEPT !.kind = "Redirect", !.key = key],
                  [op |-> "GetDel", key |-> Key("i:", key), val |-> "",
                   ttl |-> 0, conc |-> Overlaps(p, Key("i:", key))])

\* RedirectHandler after store.GetDel returned res
RedirectResponse(r, res) ==
    IF res.err = ErrNil
    THEN Error(404, "Error: failed to find metadata for the given key")
    ELSE IF res.err # ErrNone
    THEN Error(500, "Error: failed to fetch metadata")
    ELSE LET mm == DecodeStartRequest(res.val) IN
         [NoResp EXCEPT !.status = 200,
                        !.action = actionURL(mm),
                        !.manifest = MarshalManifest(mm.Manifest)]

MissingParamsBoth(state, code) == state = "" /\ code = ""

\* state == "" || code == ""
MissingParams(state, code) == state = "" \/ code = ""

\* CallbackHandler up to store.SetEx
CallbackHandler(p) ==
    /\ Accepts(p)
    /\ \E state \in Tokens \cup {""}, code \in Codes \cup {""} :
        LET r == [NoReq EXCEPT !.kind = "Callback", !.key = state, !.code = code] IN
        IF MissingParams(state, code)
        THEN Reply(p, r, Error(400, "Error: missing state or code parameters."))
        ELSE StoreCall(p, r, [op |-> "SetEx", key |-> Key("s:", state),
                              val |-> code, ttl |-> CodeTTL, conc |-> FALSE])

CallbackResponseInverted(r, res) ==
    IF res.err = ErrNone
    THEN Error(400, "Error: failed to store code.")
    ELSE [NoResp EXCEPT !.status = 302, !.location = "/done"]

\* CallbackHandler after store.SetEx returned res
CallbackResponse(r, res) ==
    IF res.err # ErrNone
    THEN Error(400, "Error: failed to store code.")
    ELSE [NoResp EXCEPT !.status = 302, !.location = "/done"]

\* CodeHandler up to store.GetDel
CodeHandler(p) ==
    /\ Accepts(p)
    /\ \E key \in Tokens :
        StoreCall(p, [NoReq EXCEPT !.kind = "Code", !.key = key],
                  [op |-> "GetDel", key |-> Key("s:", key), val |-> "",
                   ttl |-> 0, conc |-> Overlaps(p, Key("s:", key))])

CodeResponseKey(r, res) ==
    IF res.err = ErrNil
    THEN Error(404, "failed to find code for the given key")
    ELSE [NoResp EXCEPT !.status = 200, !.code = r.key]

CodeResponseNoNil(r, res) ==
    IF res.err = ErrFail
    THEN Error(500, "failed to fetch code")
    ELSE [NoResp EXCEPT !.status = 200, !.code = res.val]

\* CodeHandler after store.GetDel returned res
CodeResponse(r, res) ==
    IF res.err = ErrNil
    THEN Error(404, "failed to find code for the given key")
    ELSE IF res.err # ErrNone
    THEN Error(500, "failed to fetch code")
    ELSE [NoResp EXCEPT !.status = 200, !.code = res.val]

\* the handler's code after its store call
Response(r, res) ==
    CASE r.kind = "Start" -> StartResponse(r, res)
      [] r.kind = "Redirect" -> RedirectResponse(r, res)
      [] r.kind = "Callback" -> CallbackResponse(r, res)
      [] OTHER -> CodeResponse(r, res)

\* memStore.GetDel runs, and the handler (Redirect, Code) answers
GetDel(p) ==
    /\ pc[p] = "call"
    /\ call[p].op = "GetDel"
    /\ d' = GetDelMap(d, call[p].key)
    /\ written' = GetDelNote(written, d, call[p].key, now)
    /\ LET res == GetDelResult(d, call[p].key, now) IN
       Answer(p, res, Response(req[p], res))

\* memStore.SetEx runs, and the handler (Start, Callback) answers
SetEx(p) ==
    /\ pc[p] = "call"
    /\ call[p].op = "SetEx"
    /\ d' = SetExMap(d, call[p].key, call[p].val, call[p].ttl, now)
    /\ written' = NoteSet(written, call[p].key, call[p].val, call[p].ttl, now)
    /\ LET res == [val |-> "", err |-> ErrNone] IN
       Answer(p, res, Response(req[p], res))

\* redisStore.GetDel / redisStore.SetEx: the client's call returns an error
\* other than redis.Nil (the connection failed, the request timed out), and
\* the handler answers
StoreFails(p) ==
    /\ pc[p] = "call"
    /\ LET res == [val |-> "", err |-> ErrFail] IN
       Answer(p, res, Response(req[p], res))
    /\ UNCHANGED <<d, written>>

ClockTick ==
    /\ Tick(TickMinutes, MaxTime)
    /\ out' = NoOut

\* realMain: an empty store, no request in flight
Init ==
    /\ d = <<>>
    /\ m = 0
    /\ now = 0
    /\ pc = [p \in 1..NumHandlers |-> "idle"]
    /\ call = [p \in 1..NumHandlers |-> NoCall]
    /\ local = [p \in 1..NumHandlers |-> NoLocal]
    /\ ret = [p \in 1..NumHandlers |-> NoRet]
    /\ written = <<>>
    /\ req = [p \in 1..NumHandlers |-> NoReq]
    /\ out = NoOut
    /\ served = 0

Next ==
    \/ \E p \in Procs : StartHandler(p)
    \/ \E p \in Procs : RedirectHandler(p)
    \/ \E p \in Procs : CallbackHandler(p)
    \/ \E p \in Procs : CodeHandler(p)
    \/ \E p \in Procs : GetDel(p)
    \/ \E p \in Procs : SetEx(p)
    \/ \E p \in Procs : StoreFails(p)
    \/ ClockTick

Spec == Init /\ [][Next]_vars

(***************************************************************************)
(* Properties of the in-process store (checked under StoreSpec).           *)
(***************************************************************************)
\* goroutine p's GetDel returns in this step
GetDelReturns(p) ==
    /\ pc[p] \in {"GetDel.Read", "GetDel.Check"}
    /\ pc'[p] = "ret"

\* goroutine p's SetEx writes the map and returns in this step
SetExReturns(p) ==
    /\ pc[p] = "SetEx.Write"
    /\ pc'[p] = "ret"

Found(v) == [val |-> v, err |-> ErrNone]
NotFound == [val |-> "", err |-> ErrNil]

\* C1: of the GetDel calls made on a key since its last SetEx, overlapping or
\* not, exactly one returns the stored value: a call returns a value only if
\* no call has returned it before, the first call within the TTL does return
\* it, and every other call returns NotFound.
C1_SingleRedemption ==
    [][\A p \in Procs :
        GetDelReturns(p) =>
            LET k == call[p].key IN
            /\ ret'[p].err = ErrNone =>
                    (Live(written, k) /\ ret'[p] = Found(written[k].v))
            /\ (Live(written, k) /\ now < written[k].dl) =>
                    ret'[p] = Found(written[k].v)
            /\ ret'[p].err # ErrNone => ret'[p] = NotFound]_vars

\* two overlapping GetDel calls on one key have both returned: one with the
\* value, the other with NotFound
C1_Witness ==
    \E p, q \in Procs :
        /\ p # q
        /\ pc[p] = "ret" /\ pc[q] = "ret"
        /\ call[p].op = "GetDel" /\ call[q].op = "GetDel"
        /\ call[p].key = call[q].key
        /\ call[q].conc
        /\ MapHas(written, call[p].key)
        /\ written[call[p].key].st = "taken"
        /\ ret[p].err = ErrNone
        /\ ret[q] = NotFound

\* C2: a record written by SetEx(key, v, t) at instant w and not yet consumed
\* or overwritten is returned by GetDel(key) at every instant < w+t, and
\* GetDel(key) yields NotFound at every instant >= w+t (w+t itself included).
C2_Expiry ==
    [][\A p \in Procs :
        (GetDelReturns(p) /\ Live(written, call[p].key)) =>
            LET h == written[call[p].key] IN
            /\ now < h.dl => ret'[p] = Found(h.v)
            /\ now >= h.dl => ret'[p] = NotFound]_vars

\* C3: GetDel on a key that was never written, whose record an earlier GetDel
\* has returned or thrown away, or whose expiry instant has passed (the clock
\* reads later than w+t) returns NotFound: no other error and no stored
\* value, however often it is repeated.
C3_IdempotentAbsence ==
    [][\A p \in Procs :
        (/\ GetDelReturns(p)
         /\ \/ ~MapHas(written, call[p].key)
            \/ written[call[p].key].st \in {"taken", "lapsed"}
            \/ now > written[call[p].key].dl) =>
            ret'[p] = NotFound]_vars

\* GetDel has been repeated on a consumed key, and both calls returned
\* NotFound
C3_Witness ==
    \E p, q \in Procs :
        /\ p # q
        /\ pc[p] = "ret" /\ pc[q] = "ret"
        /\ call[p].op = "GetDel" /\ call[q].op = "GetDel"
        /\ call[p].key = call[q].key
        /\ MapHas(written, call[p].key)
        /\ written[call[p].key].st = "taken"
        /\ ret[p] = NotFound
        /\ ret[q] = NotFound

\* C10: SetEx(key, v, ttl) installs [v, now+ttl] whether or not the key holds
\* a record, live or expired, and leaves every other key alone; the next
\* GetDel(key) before that expiry returns v, never the earlier value.
C10_Overwrite ==
    [][\A p \in Procs :
        /\ SetExReturns(p) =>
            /\ MapHas(d', call[p].key)
            /\ d'[call[p].key] = [exp |-> now + call[p].ttl, val |-> call[p].val]
            /\ \A k \in DOMAIN d \ {call[p].key} : MapHas(d', k) /\ d'[k] = d[k]
            /\ ret'[p] = [val |-> "", err |-> ErrNone]
        /\ (/\ GetDelReturns(p)
            /\ Live(written, call[p].key)
            /\ now < written[call[p].key].dl) =>
                ret'[p] = Found(written[call[p].key].v)]_vars

\* p's SetEx wrote one value; while that record was live another SetEx
\* replaced it with a second value, and the GetDel that followed (q's)
\* returned the second value
C10_Witness ==
    \E p, q \in Procs :
        /\ p # q
        /\ pc[p] = "ret" /\ pc[q] = "ret"
        /\ call[p].op = "SetEx" /\ call[q].op = "GetDel"
        /\ call[p].key = call[q].key
        /\ now < call[p].ttl
        /\ written[call[p].key].st = "taken"
        /\ ret[q].err = ErrNone
        /\ ret[q].val # call[p].val

(***************************************************************************)
(* Properties of the handshake (checked under Spec).  A step that answers  *)
(* a request leaves the request, its store call, the call's result and the *)
(* response in out'; the history before the step is `written`.             *)
(***************************************************************************)
StoreFailed(o) == o.ret.err = ErrFail

\* C4: a Start answered 200 returns the key S and a url ending in I, and has
\* stored under "i:"+I a payload whose token is S; a Redirect is answered 200
\* only with the record last stored on I, which it consumes, and the form's
\* action URL then carries that record's token as state; the first Redirect
\* on I within the TTL is answered 200, and a Redirect on I after one has
\* consumed the record, sequential or concurrent, is answered 404 (store
\* failures aside).
C4_StartThenRedirect ==
    [][/\ (out'.req.kind = "Start" /\ out'.resp.status = 200) =>
            LET k == Key("i:", TokenOf(out'.resp.url)) IN
            /\ Live(written', k)
            /\ written'[k].v.token = out'.resp.key
            /\ written'[k].dl = now + InitTTL
       /\ out'.req.kind = "Redirect" =>
            LET k == Key("i:", out'.req.key) IN
            /\ out'.resp.status = 200 =>
                    /\ Live(written, k)
                    /\ TokenOf(out'.resp.action) = written[k].v.token
                    /\ written'[k].st = "taken"
            /\ (Live(written, k) /\ now < written[k].dl /\ ~StoreFailed(out')) =>
                    out'.resp.status = 200
            /\ (MapHas(written, k) /\ written[k].st = "taken" /\ ~StoreFailed(out')) =>
                    out'.resp.status = 404]_vars

\* a Redirect that overlapped the one that consumed the record was answered
\* 404
C4_Witness ==
    /\ out.req.kind = "Redirect"
    /\ out.call.conc
    /\ out.resp.status = 404
    /\ MapHas(written, out.call.key)
    /\ written[out.call.key].st = "taken"

\* C5: a Callback with state S and code C answered 302 to /done has stored C
\* under "s:"+S; a Code request is answered 200 only with the code last
\* stored on S, which it consumes; the first Code request on S within the
\* TTL is answered 200, and a Code request on S after one has consumed the
\* record, with no Callback on S since, is answered 404 (store failures
\* aside).
C5_CallbackThenCode ==
    [][/\ (out'.req.kind = "Callback" /\ out'.resp.status = 302) =>
            LET k == Key("s:", out'.req.key) IN
            /\ out'.resp.location = "/done"
            /\ Live(written', k)
            /\ written'[k].v = out'.req.code
            /\ written'[k].dl = now + CodeTTL
       /\ out'.req.kind = "Code" =>
            LET k == Key("s:", out'.req.key) IN
            /\ out'.resp.status = 200 =>
                    /\ Live(written, k)
                    /\ out'.resp.code = written[k].v
                    /\ written'[k].st = "taken"
            /\ (Live(written, k) /\ now < written[k].dl /\ ~StoreFailed(out')) =>
                    out'.resp.status = 200
            /\ (MapHas(written, k) /\ written[k].st = "taken" /\ ~StoreFailed(out')) =>
                    out'.resp.status = 404]_vars

\* the third request of a run, a Code request that followed the one that
\* consumed the code, was answered 404
C5_Witness ==
    /\ out.req.kind = "Code"
    /\ ~out.call.conc
    /\ served = 3
    /\ out.resp.status = 404
    /\ MapHas(written, out.call.key)
    /\ written[out.call.key].st = "taken"

\* the fields a Start request is to carry
RequiredFields == {"manifest", "target_type", "target_slug", "host"}

\* the body is not JSON, or is a JSON object without one of the fields
BadBody(b) ==
    \/ Body(b).parse # "ok"
    \/ ~(RequiredFields \subseteq DOMAIN Body(b).obj)

\* C6: a Start request whose body is not valid JSON, or omits manifest,
\* target_type, target_slug or host, never reaches SetEx and is answered 400.
C6_StartValidation ==
    /\ \A p \in Procs :
        (req[p].kind = "Start" /\ BadBody(req[p].body)) => call[p].op # "SetEx"
    /\ (out.req.kind = "Start" /\ BadBody(out.req.body)) =>
        (out.resp.status = 400 /\ out.call.op = "none")

\* C7: a Callback request whose state or code is empty is answered 400 in a
\* step that makes no store call and leaves the store as it was.
C7_CallbackValidation ==
    [][(out'.req.kind = "Callback" /\ (out'.req.key = "" \/ out'.req.code = "")) =>
            /\ out'.resp.status = 400
            /\ out'.resp.location = ""
            /\ out'.call.op = "none"
            /\ d' = d
            /\ written' = written
            /\ \A p \in Procs : call'[p] = call[p]]_vars

\* a Callback with a state but no code was answered 400 while the store held
\* a record
C7_Witness ==
    /\ out.req.kind = "Callback"
    /\ out.req.key # ""
    /\ out.req.code = ""
    /\ out.resp.status = 400
    /\ d # <<>>

\* C8: in each phase, when the store call fails with an error other than
\* NotFound, the response is 500 and carries no key, url, form, redirect or
\* code.
C8_StoreFailure ==
    StoreFailed(out) =>
        /\ out.resp.status = 500
        /\ out.resp.key = "" /\ out.resp.url = <<>>
        /\ out.resp.action = <<>>
        /\ out.resp.location = ""
        /\ out.resp.code = ""

\* C9: a Start request for which token() fails, for the initiation token or
\* for the state token, is answered 500 with no key and no url, in a step
\* that makes no store call and leaves the store as it was.
C9_TokenFailure ==
    [][(/\ out'.req.kind = "Start"
        /\ TokenErr \in {out'.req.initialToken, out'.req.stateToken}) =>
            /\ out'.resp.status = 500
            /\ out'.resp.key = "" /\ out'.resp.url = <<>>
            /\ out'.call.op = "none"
            /\ d' = d
            /\ written' = written
            /\ \A p \in Procs : call'[p] = call[p]]_vars

\* the second token() of a Start failed, the first having succeeded, and the
\* request was answered 500 while the store held a record
C9_Witness ==
    /\ out.req.kind = "Start"
    /\ out.req.initialToken \in Tokens
    /\ out.req.stateToken = TokenErr
    /\ out.resp.status = 500
    /\ d # <<>>

\* C11: an initiation record expires InitTTL = 10 minutes after Start stored
\* it and a code record CodeTTL = 5 minutes after Callback stored it: the
\* first redemption of an unconsumed record before its deadline succeeds,
\* and a redemption tried after the deadline is answered 404 (store failures
\* aside).
C11_Deadlines ==
    /\ (out.req.kind = "Start" /\ out.resp.status = 200) =>
            written[out.call.key].dl = now + 10
    /\ (out.req.kind = "Callback" /\ out.resp.status = 302) =>
            written[out.call.key].dl = now + 5
    /\ (/\ out.req.kind \in {"Redirect", "Code"}
        /\ out.was.st = "set"
        /\ ~StoreFailed(out)) =>
            /\ now < out.was.dl => out.resp.status = 200
            /\ now > out.was.dl => out.resp.status = 404

\* a Redirect on a record that nobody redeemed came after the record's
\* deadline and was answered 404
C11_Witness ==
    /\ out.req.kind = "Redirect"
    /\ out.was.st = "set"
    /\ now > out.was.dl
    /\ out.resp.status = 404

\* the record last written under k has been returned, thrown away, or has
\* outlived its deadline
Gone(h, k, t) ==
    /\ MapHas(h, k)
    /\ \/ h[k].st \in {"taken", "lapsed"}
       \/ h[k].st = "set" /\ t > h[k].dl

\* a GetDel on k would return a value
Redeemable(dd, k, t) == GetDelResult(dd, k, t).err = ErrNone

\* C12: once the record under a token has been consumed or has expired, no
\* step other than a new Start makes that token redeemable again.
C12_Permanence ==
    [][\A k \in DOMAIN written :
        (Gone(written, k, now) /\ out'.req.kind # "Start") =>
            ~Redeemable(d', k, now')]_vars

\* the JSON object ren has the fields of the JSON object sub, with the same
\* values, and no others
Verbatim(sub, ren) ==
    /\ DOMAIN ren = DOMAIN sub
    /\ \A f \in DOMAIN sub : ren[f] = sub[f]

\* C13: the manifest in the record Start stores is the manifest of the
\* request body, field for field, and the manifest in the form Redirect
\* renders is the manifest of the record it consumed, field for field.
C13_ManifestVerbatim ==
    /\ (/\ out.req.kind = "Start"
        /\ out.resp.status = 200
        /\ "manifest" \in DOMAIN Body(out.req.body).obj) =>
            Verbatim(Body(out.req.body).obj.manifest,
                     written[out.call.key].v.manifest)
    /\ (out.req.kind = "Redirect" /\ out.resp.status = 200) =>
            Verbatim(out.was.v.manifest, out.resp.manifest)

\* target types a record may carry, "org" and others
TargetTypes == {"org", "user", "", "organization", "ORG", "team"}

\* the two shapes of an action URL, as the pieces joined
OrgShape(host, slug, state) ==
    <<"https://", host, "/organizations/", slug, "/settings/apps/new?state=", state>>
UserShape(host, state) ==
    <<"https://", host, "/settings/apps/new?state=", state>>

\* C14: the action URL of the form Redirect renders has the organization
\* shape when the consumed record's target_type is "org" and the
\* individual-account shape for every other target_type, "user", the empty
\* string and unknown values included; actionURL gives one of the two for
\* every target type.
C14_ActionURL ==
    /\ (out.req.kind = "Redirect" /\ out.resp.status = 200) =>
            LET r == out.was.v IN
            out.resp.action =
                IF r.target_type = "org"
                THEN OrgShape(r.host, r.target_slug, r.token)
                ELSE UserShape(r.host, r.token)
    /\ \A tt \in TargetTypes :
            LET data == [DecodeStartRequest(Body("org").obj) EXCEPT
                            !.TargetType = tt, !.Token = "t1"] IN
            actionURL(data) =
                IF tt = "org"
                THEN OrgShape(data.Host, data.TargetSlug, "t1")
                ELSE UserShape(data.Host, "t1")

\* a Redirect rendered the form for a record whose target_type is "org"
C14_Witness ==
    /\ out.req.kind = "Redirect"
    /\ out.resp.status = 200
    /\ out.was.v.target_type = "org"
    /\ out.resp.action = OrgShape("github.example", "acme", out.was.v.token)

\* C15: a Redirect on I renders the form only if a SetEx under "i:"+I, which
\* only Start makes, completed before the Redirect's GetDel and its record
\* was not consumed since; a Code request on S returns a code only if a
\* SetEx under "s:"+S, which only Callback makes, completed before the
\* request's GetDel, and the code is that of the last such SetEx.
C15_HappensBefore ==
    /\ \A p \in Procs :
        /\ (call[p].op = "SetEx" /\ call[p].key[1] = "i:") => req[p].kind = "Start"
        /\ (call[p].op = "SetEx" /\ call[p].key[1] = "s:") => req[p].kind = "Callback"
    /\ (out.req.kind = "Redirect" /\ out.resp.status = 200) =>
            /\ out.call.key = Key("i:", out.req.key)
            /\ out.was.st = "set"
            /\ out.ret.val = out.was.v
    /\ (out.req.kind = "Code" /\ out.resp.status = 200) =>
            /\ out.call.key = Key("s:", out.req.key)
            /\ out.was.st = "set"
            /\ out.resp.code = out.was.v

\* a Redirect on I ran its GetDel while the Start that drew I had not yet
\* run its SetEx, and was answered 404
C15_Witness ==
    /\ out.req.kind = "Redirect"
    /\ out.resp.status = 404
    /\ out.was.st = "never"
    /\ \E p \in Procs :
        /\ pc[p] = "call"
        /\ req[p].kind = "Start"
        /\ call[p].key = out.call.key

(***************************************************************************)
(* Further properties of the in-process store (checked under StoreSpec).   *)
(***************************************************************************)
\* C16: however SetEx and GetDel calls on a key interleave, a GetDel returns
\* a value only by consuming the record the last completed SetEx installed:
\* the value is that SetEx's, the record was not consumed before, and the
\* step marks it consumed and removes it from the map, so that no second
\* GetDel can return it; only a completed SetEx makes a record consumable
\* again.
C16_AtMostOnce ==
    [][\A p \in Procs :
        LET k == call[p].key IN
        /\ (GetDelReturns(p) /\ ret'[p].err = ErrNone) =>
                /\ Live(written, k)
                /\ ret'[p].val = written[k].v
                /\ written'[k].st = "taken"
                /\ ~MapHas(d', k)
        /\ (Live(written', k) /\ ~Live(written, k)) =>
                \E q \in Procs : SetExReturns(q) /\ call[q].key = k]_vars

\* a GetDel has returned the value while a SetEx on the same key, called
\* meanwhile, holds the mutex and is about to write
C16_Witness ==
    \E p, q \in Procs :
        /\ pc[p] = "ret" /\ call[p].op = "GetDel"
        /\ ret[p].err = ErrNone
        /\ pc[q] = "SetEx.Write" /\ call[q].key = call[p].key
        /\ written[call[p].key].st = "taken"

(***************************************************************************)
(* Further properties of the handshake (checked under Spec).               *)
(***************************************************************************)
\* C17: a Callback with a non-empty state and code stores the code under
\* "s:"+state and redirects to /done whatever the history of the store is
\* (whether or not a Start issued that state, whether or not a Redirect
\* consumed the initiation record), and a Code request on that state before
\* the 5 minutes are over returns that code (store failures aside).
C17_CallbackTrustsState ==
    /\ (/\ out.req.kind = "Callback"
        /\ out.req.key # "" /\ out.req.code # ""
        /\ ~StoreFailed(out)) =>
            /\ out.resp.status = 302
            /\ written[Key("s:", out.req.key)] =
                    [st |-> "set", v |-> out.req.code, dl |-> now + 5]
    /\ (/\ out.req.kind = "Code"
        /\ out.was.st = "set"
        /\ now < out.was.dl
        /\ ~StoreFailed(out)) =>
            /\ out.resp.status = 200
            /\ out.resp.code = out.was.v

\* a Code request returned a code stored by a Callback, no Start having
\* stored anything
C17_Witness ==
    /\ out.req.kind = "Code"
    /\ out.resp.status = 200
    /\ out.resp.code \in Codes
    /\ \A k \in DOMAIN written : k[1] = "s:"

\* the tokens a request names
Named(r) == {r.key, r.initialToken, r.stateToken} \ {""}

\* C18: a step changes the record of no key but the one the answered
\* request's store call was made on, and that key is made of a token the
\* request names; the records under every other token keep their presence,
\* value and expiry.
C18_Independence ==
    [][\A k \in DOMAIN d \cup DOMAIN d' :
        \/ /\ MapHas(d, k) /\ MapHas(d', k)
           /\ d'[k] = d[k]
        \/ /\ out'.call.op # "none"
           /\ k = out'.call.key
           /\ k[2] \in Named(out'.req)]_vars

\* a Redirect consumed the record of one handshake while the record of
\* another handshake was in the store
C18_Witness ==
    /\ out.req.kind = "Redirect"
    /\ out.resp.status = 200
    /\ \E k \in DOMAIN d : k[1] = "i:" /\ k[2] \notin Named(out.req)

\* the maps dd and ee agree on every key but k
SameBut(dd, ee, k) ==
    /\ DOMAIN dd \ {k} = DOMAIN ee \ {k}
    /\ \A x \in DOMAIN dd \ {k} : ee[x] = dd[x]

\* C19: a request makes at most one store call, and the step in which it is
\* answered has the effect of that one call and no other: Start and
\* Callback either make no call or one SetEx, which writes its key and
\* deletes nothing; Redirect and Code make one GetDel, which removes its key
\* and writes nothing; a call that failed is not repeated; a goroutine that
\* was answered is at no store call.
C19_OneStoreOperation ==
    [][/\ out'.req.kind \in {"Start", "Callback"} =>
            out'.call.op \in {"none", "SetEx"}
       /\ out'.req.kind \in {"Redirect", "Code"} => out'.call.op = "GetDel"
       /\ (out'.call.op = "none" \/ StoreFailed(out')) => d' = d
       /\ (out'.call.op = "SetEx" /\ ~StoreFailed(out')) =>
            /\ MapHas(d', out'.call.key)
            /\ d'[out'.call.key].val = out'.call.val
            /\ SameBut(d, d', out'.call.key)
       /\ (out'.call.op = "GetDel" /\ ~StoreFailed(out')) =>
            /\ ~MapHas(d', out'.call.key)
            /\ SameBut(d, d', out'.call.key)
       /\ \A p \in Procs :
            (pc[p] = "call" /\ call'[p] # call[p]) =>
                (pc'[p] = "idle" /\ out'.call = call[p])]_vars

\* the SetEx of a Start failed and was not tried again: the request was
\* answered 500 and the store holds nothing
C19_Witness ==
    /\ out.req.kind = "Start"
    /\ StoreFailed(out)
    /\ out.resp.status = 500
    /\ d = <<>>
    /\ \A p \in Procs : pc[p] = "idle"

(***************************************************************************)
(* Retention in the in-process store (checked under StoreSpec).            *)
(***************************************************************************)
\* C20: in every reachable state the map holds no entry whose expiry instant
\* has passed.
C20_NoExpiredEntry ==
    \A k \in DOMAIN d : ~After(now, d[k].exp)

(***************************************************************************)
(* Key namespaces and early polls (checked under Spec).                    *)
(***************************************************************************)
\* key k has the same entry, or none, in the maps dd and ee
SameEntry(dd, ee, k) ==
    /\ MapHas(dd, k) <=> MapHas(ee, k)
    /\ MapHas(dd, k) => ee[k] = dd[k]

\* C21: Start and Redirect make their store call on "i:" followed by the
\* token, Callback and Code on "s:" followed by the token, and the two keys
\* of one string differ: the step answering a Code request or a Callback on
\* k leaves the initiation record under k as it was, and the step answering
\* a Redirect on k leaves the code record under k as it was.
C21_Namespaces ==
    [][/\ (out'.req.kind = "Start" /\ out'.call.op # "none") =>
            out'.call.key = <<"i:", out'.req.initialToken>>
       /\ out'.req.kind = "Redirect" => out'.call.key = <<"i:", out'.req.key>>
       /\ (out'.req.kind = "Callback" /\ out'.call.op # "none") =>
            out'.call.key = <<"s:", out'.req.key>>
       /\ out'.req.kind = "Code" => out'.call.key = <<"s:", out'.req.key>>
       /\ out'.req.kind \in {"Callback", "Code"} =>
            SameEntry(d, d', <<"i:", out'.req.key>>)
       /\ out'.req.kind = "Redirect" =>
            SameEntry(d, d', <<"s:", out'.req.key>>)]_vars

\* a Code request on k consumed the code record under k while the
\* initiation record under the same string k stayed in the store
C21_Witness ==
    /\ out.req.kind = "Code"
    /\ out.resp.status = 200
    /\ MapHas(d, <<"i:", out.req.key>>)
    /\ ~MapHas(d, <<"s:", out.req.key>>)

\* C22: a Code request on S made when no Callback has stored anything under
\* S is answered 404 in a step that leaves the store as it was; and a Code
\* request on S that follows a Callback on S within the 5 minutes returns
\* that Callback's code, however many polls came before (store failures
\* aside).
C22_EarlyPoll ==
    [][(out'.req.kind = "Code" /\ ~StoreFailed(out')) =>
            LET k == <<"s:", out'.req.key>> IN
            /\ ~MapHas(written, k) =>
                    /\ out'.resp.status = 404
                    /\ out'.resp.code = ""
                    /\ d' = d
                    /\ written' = written
            /\ (Live(written, k) /\ now < written[k].dl) =>
                    /\ out'.resp.status = 200
                    /\ out'.resp.code = written[k].v]_vars

\* a Code request polled S while the Callback on S had not yet stored its
\* code: it was answered 404, and the Callback is still to write
C22_Witness ==
    /\ out.req.kind = "Code"
    /\ out.resp.status = 404
    /\ out.was.st = "never"
    /\ d = <<>>
    /\ \E p \in Procs :
        /\ pc[p] = "call"
        /\ req[p].kind = "Callback"
        /\ req[p].key = out.req.key

====
